---- MODULE Spec2Model ----
(***************************************************************************)
(* Quote - payment - job settlement pipeline of the Bitcoin metered API.   *)
(*                                                                         *)
(* State: the four SQLite tables (quotes, payments, jobs,                  *)
(* idempotency_keys), the wall clock, the configured payments mode and the *)
(* POST /v1/paycall requests with the position of each async handler, and  *)
(* the calls made to a service function directly, as the unit tests make   *)
(* them.                                                                   *)
(* Every `await` of the handler is a point where other handlers, the       *)
(* periodic sweep and the clock may run.                                   *)
(*                                                                         *)
(* Strings that are compared or measured are sequences: an id is           *)
(* <<prefix, serial>>, a payment blob is a sequence of one-character       *)
(* strings, a timestamp text is <<date, separator code, time of day>>.     *)
(* A value that may be null or undefined is << >> or <<v>>.                *)
(***************************************************************************)
EXTENDS Integers, Sequences, FiniteSets, Bags, TLC

VARIABLES now, paymentsMode, quotes, payments, jobs, idem, inflight, sent, ticks, direct

vars == <<now, paymentsMode, quotes, payments, jobs, idem, inflight, sent, ticks, direct>>

store == <<quotes, payments, jobs, idem>>

(***************************************************************************)
(* Bounds of the model.                                                    *)
(***************************************************************************)
MaxQuotes == 2
MaxCalls == 2
MaxTicks == 1

(***************************************************************************)
(* Program constants.                                                      *)
(***************************************************************************)
QUOTE_TTL_MS == 30000
IDEM_TTL_S == 120
MIN_BLOB_LEN == 10
MS_PER_DAY == 24 * 60 * 60 * 1000

NULL == [null |-> TRUE]

Range(f) == {f[x] : x \in DOMAIN f}

(***************************************************************************)
(* Timestamps.  Date.toISOString() gives "YYYY-MM-DDTHH:MM:SS.mmmZ";       *)
(* SQLite datetime('now') gives "YYYY-MM-DD HH:MM:SS".  Both are stored    *)
(* and compared as TEXT, byte by byte: the date, then the separator        *)
(* ("T" is 84, " " is 32), then the time of day.                           *)
(***************************************************************************)
toISOString(t) == <<t \div MS_PER_DAY, 84, t % MS_PER_DAY>>

datetimeNow(t) == <<t \div MS_PER_DAY, 32, ((t % MS_PER_DAY) \div 1000) * 1000>>

DateParse(iso) == iso[1] * MS_PER_DAY + iso[3]

TextLess(a, b) ==
    \/ a[1] < b[1]
    \/ a[1] = b[1] /\ a[2] < b[2]
    \/ a[1] = b[1] /\ a[2] = b[2] /\ a[3] < b[3]

(***************************************************************************)
(* nanoid: a fresh id; rows are never deleted from quotes, payments and    *)
(* jobs, so the serial after the number of rows is unused.                 *)
(***************************************************************************)
nanoid(prefix, table) == <<prefix, Cardinality(DOMAIN table) + 1>>

EmptyFn == [x \in {} |-> NULL]

Put(table, id, row) == [x \in DOMAIN table \cup {id} |-> IF x = id THEN row ELSE table[x]]

(***************************************************************************)
(* DB: quotes.                                                             *)
(***************************************************************************)
getQuote(qs, id) == IF id \in DOMAIN qs THEN qs[id] ELSE NULL

updateQuoteStatus(qs, id, status) ==
    [x \in DOMAIN qs |-> IF x = id THEN [qs[x] EXCEPT !.status = status] ELSE qs[x]]

(***************************************************************************)
(* DB: idempotency keys.  The lookup and the sweep compare the stored ISO  *)
(* text with datetime('now') as TEXT.                                      *)
(***************************************************************************)
getIdempotencyKey(tbl, key, t) ==
    IF key \in DOMAIN tbl /\ TextLess(datetimeNow(t), tbl[key].expires_at)
    THEN [response_json |-> tbl[key].response_json]
    ELSE NULL

setIdempotencyKey(tbl, key, responseJson, ttlSeconds, t) ==
    Put(tbl, key, [response_json |-> responseJson,
                   expires_at |-> toISOString(t + ttlSeconds * 1000)])

cleanupIdempotency(tbl, t) ==
    [k \in {x \in DOMAIN tbl : ~TextLess(tbl[x].expires_at, datetimeNow(t))} |-> tbl[k]]

(* Mutant: the sweep deletes the quotes past their expiry. *)
cleanupQuotesDeletes(qs, t) ==
    [x \in {q \in DOMAIN qs : ~TextLess(qs[q].expires_at, datetimeNow(t))} |-> qs[x]]

(* Mutant: the sweep expires every quote past its expiry, used ones too. *)
cleanupQuotesAnyStatus(qs, t) ==
    [x \in DOMAIN qs |->
        IF TextLess(qs[x].expires_at, datetimeNow(t))
        THEN [qs[x] EXCEPT !.status = "expired"]
        ELSE qs[x]]

cleanupQuotes(qs, t) ==
    [x \in DOMAIN qs |->
        IF qs[x].status = "active" /\ TextLess(qs[x].expires_at, datetimeNow(t))
        THEN [qs[x] EXCEPT !.status = "expired"]
        ELSE qs[x]]

(***************************************************************************)
(* QuotesService.getValidQuote: the quote it returns (NULL for none) and   *)
(* the quotes table it leaves.                                             *)
(***************************************************************************)
(* Mutants: a validity check that forgets the status, one that forgets the *)
(* expiry time.                                                            *)
getValidQuoteAnyStatus(qs, quoteId, t) ==
    LET quote == getQuote(qs, quoteId) IN
    IF quote = NULL THEN NULL
    ELSE IF DateParse(quote.expires_at) < t THEN NULL
    ELSE quote

getValidQuoteNoExpiry(qs, quoteId, t) ==
    LET quote == getQuote(qs, quoteId) IN
    IF quote = NULL THEN NULL
    ELSE IF quote.status # "active" THEN NULL
    ELSE quote

getValidQuote(qs, quoteId, t) ==
    LET quote == getQuote(qs, quoteId) IN
    IF quote = NULL THEN NULL
    ELSE IF DateParse(quote.expires_at) < t THEN NULL
    ELSE IF quote.status # "active" THEN NULL
    ELSE quote

getValidQuoteStore(qs, quoteId, t) ==
    LET quote == getQuote(qs, quoteId) IN
    IF quote # NULL /\ DateParse(quote.expires_at) < t
    THEN updateQuoteStatus(qs, quoteId, "expired")
    ELSE qs

markQuoteUsed(qs, quoteId) == updateQuoteStatus(qs, quoteId, "used")

(***************************************************************************)
(* PRICING_RULES.  A unit count of 0 stands for an absent (or falsy)       *)
(* count; counts are integers here.                                        *)
(***************************************************************************)
Ceil(num, den) == (num + den - 1) \div den

OrDefault(v, d) == IF v = 0 THEN d ELSE v

(* Mutant: the hundreds are rounded up, then priced. *)
PRICING_RULES_PerStartedHundred(endpoint, units) ==
    CASE endpoint = "summarize" -> Ceil(OrDefault(units.tokens, 1000), 100) * 5
      [] endpoint = "generate_image" -> OrDefault(units.images, 1) * 50
      [] endpoint = "translate" -> Ceil(OrDefault(units.characters, 500), 100) * 3
      [] endpoint = "compute" -> OrDefault(units.seconds, 1) * 10
      [] OTHER -> OrDefault(units.amount, 1) * 10

PRICING_RULES(endpoint, units) ==
    CASE endpoint = "summarize" -> Ceil(OrDefault(units.tokens, 1000) * 5, 100)
      [] endpoint = "generate_image" -> OrDefault(units.images, 1) * 50
      [] endpoint = "translate" -> Ceil(OrDefault(units.characters, 500) * 3, 100)
      [] endpoint = "compute" -> OrDefault(units.seconds, 1) * 10
      [] OTHER -> OrDefault(units.amount, 1) * 10

NoUnits == [tokens |-> 0, images |-> 0, characters |-> 0, seconds |-> 0, amount |-> 0]

DefaultUnits == [NoUnits EXCEPT !.tokens = 1000]

QuoteUnits(query) == IF query = NoUnits THEN DefaultUnits ELSE query

(***************************************************************************)
(* ArkVerifier.                                                            *)
(***************************************************************************)
Upper == <<"A","B","C","D","E","F","G","H","I","J","K","L","M",
           "N","O","P","Q","R","S","T","U","V","W","X","Y","Z">>

Lower == <<"a","b","c","d","e","f","g","h","i","j","k","l","m",
           "n","o","p","q","r","s","t","u","v","w","x","y","z">>

Digits == <<"0","1","2","3","4","5","6","7","8","9">>

Base64Chars == Range(Upper) \cup Range(Lower) \cup Range(Digits) \cup {"+", "/", "="}

IndexOf(seq, c) == CHOOSE i \in 1..Len(seq) : seq[i] = c

charCode(c) ==
    CASE c \in Range(Upper) -> 64 + IndexOf(Upper, c)
      [] c \in Range(Lower) -> 96 + IndexOf(Lower, c)
      [] c \in Range(Digits) -> 47 + IndexOf(Digits, c)
      [] c = "+" -> 43
      [] c = "/" -> 47
      [] c = "=" -> 61
      [] c = "!" -> 33
      [] OTHER -> 32

base64RegexTest(s) == Len(s) >= 1 /\ \A i \in 1..Len(s) : s[i] \in Base64Chars

(* Mutant: the length is checked, the alphabet is not. *)
validatePaymentFormatLengthOnly(spendBlob, proof) ==
    ~(Len(spendBlob) < MIN_BLOB_LEN \/ Len(proof) < MIN_BLOB_LEN)

validatePaymentFormat(spendBlob, proof) ==
    IF Len(spendBlob) < MIN_BLOB_LEN \/ Len(proof) < MIN_BLOB_LEN
    THEN FALSE
    ELSE base64RegexTest(spendBlob) /\ base64RegexTest(proof)

(***************************************************************************)
(* simulateTxHash: hash = ((hash << 5) - hash) + code, cut to 32 bits      *)
(* (hash & hash) after every character, i.e. 31 * hash + code modulo 2^32  *)
(* as a signed value, computed on 16-bit halves; then Math.abs.  The hex   *)
(* text of the result is one-to-one with the number, which stands for it.  *)
(***************************************************************************)
hashStep(hash, code) ==
    LET lo == hash % 65536
        hi == hash \div 65536
        t == 31 * lo + code
        hi2 == 31 * hi + (t \div 65536)
    IN  (((hi2 + 32768) % 65536) - 32768) * 65536 + (t % 65536)

RECURSIVE hashFrom(_, _, _)
hashFrom(data, i, hash) ==
    IF i > Len(data) THEN hash
    ELSE hashFrom(data, i + 1, hashStep(hash, charCode(data[i])))

simulateTxHash(data) ==
    LET h == hashFrom(data, 1, 0) IN IF h < 0 THEN 0 - h ELSE h

getCurrentRound(t) == [roundId |-> <<"r_", toISOString(t)>>]

(* What verifySpend decides before its first await. *)
verifySpendCheck(spendBlob, proof) ==
    IF Len(spendBlob) = 0 \/ Len(proof) = 0
    THEN [ok |-> FALSE, reason |-> "missing_payment_data"]
    ELSE IF ~validatePaymentFormat(spendBlob, proof)
    THEN [ok |-> FALSE, reason |-> "invalid_payment_format"]
    ELSE [ok |-> TRUE]

(* Mutant: free mode accepts whatever is present, unvalidated. *)
verifySpendFreeAcceptsAll(mode, expectedSats, spendBlob, proof, tCall, tResume) ==
    LET round == getCurrentRound(tCall) IN
    IF Len(spendBlob) = 0 \/ Len(proof) = 0
    THEN [ok |-> FALSE, reason |-> "missing_payment_data"]
    ELSE IF mode # "free" /\ ~validatePaymentFormat(spendBlob, proof)
    THEN [ok |-> FALSE, reason |-> "invalid_payment_format"]
    ELSE [ok |-> TRUE,
          settlementRef |->
              IF mode = "free"
              THEN <<"ark:round:", round.roundId, "/tx:free_mode_", tResume>>
              ELSE <<"ark:round:", round.roundId, "/tx:", simulateTxHash(spendBlob)>>,
          actualSats |-> expectedSats,
          roundId |-> round.roundId]

(* The result verifySpend resolves to: the round was asked for at tCall,   *)
(* the free-mode reference reads the clock again at tResume.               *)
verifySpend(mode, expectedSats, spendBlob, proof, tCall, tResume) ==
    LET check == verifySpendCheck(spendBlob, proof)
        round == getCurrentRound(tCall)
    IN  IF ~check.ok THEN check
        ELSE [ok |-> TRUE,
              settlementRef |->
                  IF mode = "free"
                  THEN <<"ark:round:", round.roundId, "/tx:free_mode_", tResume>>
                  ELSE <<"ark:round:", round.roundId, "/tx:", simulateTxHash(spendBlob)>>,
              actualSats |-> expectedSats,
              roundId |-> round.roundId]

(***************************************************************************)
(* WORKERS.  JavaScript values of a result are tagged: [str |-> s],        *)
(* [num |-> n], NaN, UNDEFINED.  A text is its sequence of words; the      *)
(* result fields that count or quote characters (original_length,          *)
(* summary_length, characters_processed, image_url) are left out, and the  *)
(* optional arguments from, to, width and height take their defaults.      *)
(***************************************************************************)
NaN == [nan |-> TRUE]

UNDEFINED == [undefined |-> TRUE]

ABSENT == [absent |-> TRUE]

JsStr(s) == [str |-> s]

JsNum(n) == [num |-> n]

Min(a, b) == IF a < b THEN a ELSE b

HasWorker(endpoint) == endpoint \in {"summarize", "generate_image", "translate", "compute"}

Thrown(message) == [threw |-> TRUE, message |-> message]

Returned(value) == [threw |-> FALSE, value |-> value]

summarize(args) ==
    IF Len(args.text) = 0 THEN Thrown(<<"text is required">>)
    ELSE LET summaryLength == Min(50, Len(args.text) \div 3) IN
         Returned([summary |-> JsStr(SubSeq(args.text, 1, summaryLength) \o <<"...">>),
                   tokens_processed |-> JsNum(Len(args.text))])

generate_image(args) ==
    IF Len(args.prompt) = 0 THEN Thrown(<<"prompt is required">>)
    ELSE Returned([prompt |-> JsStr(args.prompt),
                   dimensions |-> [width |-> JsNum(512), height |-> JsNum(512)],
                   processing_time_ms |-> JsNum(150)])

translate(args) ==
    IF Len(args.text) = 0 THEN Thrown(<<"text is required">>)
    ELSE Returned([original |-> JsStr(args.text),
                   translated |-> JsStr(<<"[en->es]">> \o args.text),
                   from_language |-> JsStr("en"),
                   to_language |-> JsStr("es")])

(* Math.sqrt: NaN below zero, the root of a square, else the irrational    *)
(* root as a term.                                                         *)
MathSqrt(n) ==
    IF n < 0 THEN NaN
    ELSE IF \E k \in 0..n : k * k = n THEN JsNum(CHOOSE k \in 0..n : k * k = n)
    ELSE [sqrt |-> n]

compute(args, t) ==
    IF args.operation = "" THEN Thrown(<<"operation is required">>)
    ELSE IF args.operation \notin {"square", "sqrt", "double"}
    THEN Thrown(<<"unknown operation: ", args.operation>>)
    ELSE Returned([operation |-> JsStr(args.operation),
                   input |-> IF args.value = << >> THEN UNDEFINED ELSE JsNum(args.value[1]),
                   output |-> IF args.value = << >> THEN NaN
                              ELSE CASE args.operation = "square"
                                          -> JsNum(args.value[1] * args.value[1])
                                     [] args.operation = "sqrt" -> MathSqrt(args.value[1])
                                     [] args.operation = "double" -> JsNum(args.value[1] * 2),
                   computed_at |-> JsStr(toISOString(t))])

WORKERS(endpoint, args, t) ==
    CASE endpoint = "summarize" -> summarize(args)
      [] endpoint = "generate_image" -> generate_image(args)
      [] endpoint = "translate" -> translate(args)
      [] endpoint = "compute" -> compute(args, t)

(***************************************************************************)
(* JSON.stringify / JSON.parse of a response.  A JSON text is              *)
(* <<"json", content>>: NaN is written as null, an undefined property is   *)
(* left out (ABSENT); parsing gives the object the text denotes.           *)
(***************************************************************************)
stringifyValue(v) == IF v = NaN THEN NULL ELSE IF v = UNDEFINED THEN ABSENT ELSE v

JSONstringify(response) ==
    <<"json", [response EXCEPT !.result = [f \in DOMAIN response.result |->
                                               stringifyValue(response.result[f])]]>>

JSONparse(text) == text[2]

(***************************************************************************)
(* DB: payments and jobs.                                                  *)
(***************************************************************************)
createPayment(ps, payment) == Put(ps, payment.id, payment)

dbCreateJob(js, job) == Put(js, job.id, job @@ [completed_at |-> << >>])

getJob(js, id) == IF id \in DOMAIN js THEN js[id] ELSE NULL

NoUpdates == [status |-> << >>, result_json |-> << >>,
              error_message |-> << >>, completed_at |-> << >>]

updateJob(js, id, updates) ==
    [x \in DOMAIN js |->
        IF x # id THEN js[x]
        ELSE [status |-> IF updates.status # << >> THEN updates.status[1] ELSE js[x].status,
              result_json |-> IF updates.result_json # << >>
                              THEN updates.result_json ELSE js[x].result_json,
              error_message |-> IF updates.error_message # << >>
                                THEN updates.error_message ELSE js[x].error_message,
              completed_at |-> IF updates.completed_at # << >>
                               THEN updates.completed_at ELSE js[x].completed_at,
              id |-> js[x].id, payment_id |-> js[x].payment_id,
              endpoint |-> js[x].endpoint, args_json |-> js[x].args_json]]

(***************************************************************************)
(* PayCallBodySchema: every string of the body has at least one character. *)
(***************************************************************************)
(* Mutant: the blobs of ark_payment may be empty strings. *)
PayCallBodySchemaBlobsOptional(body) ==
    /\ Len(body.quote_id) >= 1
    /\ body.ark_payment.sender_pubkey # ""
    /\ body.request.endpoint # ""

PayCallBodySchema(body) ==
    /\ Len(body.quote_id) >= 1
    /\ Len(body.ark_payment.vtxo_spend) >= 1
    /\ Len(body.ark_payment.proof) >= 1
    /\ body.ark_payment.sender_pubkey # ""
    /\ body.request.endpoint # ""

(***************************************************************************)
(* Inputs the requests are drawn from.                                     *)
(***************************************************************************)
GoodSpend == <<"d","G","V","z","d","H","Z","v","e","G","9","z","c","G","V","u","Z","A","=","=">>

GoodProof == <<"d","G","V","z","d","H","B","y","b","2","9","m">>

ShortBlob == <<"s","h","o","r","t">>

BadCharBlob == <<"n","o","t","!","b","a","s","e","6","4","!","!">>

QuoteQueries == { [endpoint |-> "summarize", units |-> NoUnits] }

GoodClaim == [vtxo_spend |-> GoodSpend, proof |-> GoodProof, sender_pubkey |-> "ark1q"]

BadFormatClaim == [vtxo_spend |-> ShortBlob, proof |-> BadCharBlob, sender_pubkey |-> "ark1q"]

NoProofClaim == [vtxo_spend |-> GoodSpend, proof |-> << >>, sender_pubkey |-> "ark1q"]

NoArgs == [text |-> << >>, prompt |-> << >>, operation |-> "", value |-> << >>]

TextArgs == [NoArgs EXCEPT !.text = <<"pay", "per", "call">>]

Requests ==
    { [ark_payment |-> GoodClaim, request |-> [endpoint |-> "summarize", args |-> TextArgs]],
      [ark_payment |-> GoodClaim, request |-> [endpoint |-> "summarize", args |-> NoArgs]],
      [ark_payment |-> BadFormatClaim, request |-> [endpoint |-> "summarize", args |-> TextArgs]],
      [ark_payment |-> GoodClaim, request |-> [endpoint |-> "translate", args |-> TextArgs]],
      [ark_payment |-> NoProofClaim, request |-> [endpoint |-> "summarize", args |-> TextArgs]] }

QuoteIds == {<<"q_", n>> : n \in 1..MaxQuotes} \cup {<< >>}

Keys == {"", "key-1"}

Bodies == { [quote_id |-> q] @@ rest : q \in QuoteIds, rest \in Requests }

(***************************************************************************)
(* Initial state: empty tables, no request.  inflight is the bag of the    *)
(* suspended paycall handlers, sent the paycall responses in the order     *)
(* they were sent; a 200 response carries the JSON text of its body.       *)
(* The payments mode is read from the environment once, at start-up;       *)
(* mainnet takes the branches of testnet everywhere.                       *)
(***************************************************************************)
NoResponse == [key |-> "", quote_id |-> << >>, code |-> 0, payload |-> NULL]

last == IF sent = << >> THEN NoResponse ELSE sent[Len(sent)]

calls == Len(sent) + BagCardinality(inflight)

Modes == {"free", "testnet"}

Init ==
    /\ now = 0
    /\ paymentsMode \in Modes
    /\ quotes = EmptyFn
    /\ payments = EmptyFn
    /\ jobs = EmptyFn
    /\ idem = EmptyFn
    /\ inflight = EmptyBag
    /\ sent = << >>
    /\ ticks = 0
    /\ direct = {}

Suspend(r, r2) == (inflight (-) SetToBag({r})) (+) SetToBag({r2})

Finish(r) == inflight (-) SetToBag({r})

(***************************************************************************)
(* GET /v1/quote -> QuotesService.createQuote.                             *)
(***************************************************************************)
(* Mutant: the price grows with the number of quotes already issued. *)
createQuoteSurge(qs, endpoint, query, t) ==
    LET units == QuoteUnits(query)
        quoteId == nanoid("q_", qs)
    IN  Put(qs, quoteId, [id |-> quoteId,
                          endpoint |-> endpoint,
                          units |-> units,
                          price_sats |-> PRICING_RULES(endpoint, units)
                                             + Cardinality(DOMAIN qs),
                          expires_at |-> toISOString(t + QUOTE_TTL_MS),
                          status |-> "active"])

createQuote(qs, endpoint, query, t) ==
    LET units == QuoteUnits(query)
        quoteId == nanoid("q_", qs)
    IN  Put(qs, quoteId, [id |-> quoteId,
                          endpoint |-> endpoint,
                          units |-> units,
                          price_sats |-> PRICING_RULES(endpoint, units),
                          expires_at |-> toISOString(t + QUOTE_TTL_MS),
                          status |-> "active"])

GetQuote(query) ==
    /\ Cardinality(DOMAIN quotes) < MaxQuotes
    /\ quotes' = createQuote(quotes, query.endpoint, query.units, now)
    /\ UNCHANGED <<now, paymentsMode, payments, jobs, idem, inflight, sent, ticks, direct>>

(***************************************************************************)
(* POST /v1/paycall, up to the first await (the call of verifySpend):      *)
(* the response sent, if one is, the quotes table left, and whether        *)
(* verifySpend was called (the handler is then suspended on it).           *)
(***************************************************************************)
Reply(key, body, code, payload) ==
    [key |-> key, quote_id |-> body.quote_id, code |-> code, payload |-> payload]

Error(error, detail) == [error |-> error, detail |-> detail]

Sent(reply, qs) == [reply |-> reply, quotes |-> qs, verifierCalled |-> FALSE]

(* Mutants: the body validated before the cache is looked up; the         *)
(* endpoint never compared.                                                *)
paycallValidateFirst(key, body, tbl, qs, t) ==
    LET cached == IF key # "" THEN getIdempotencyKey(tbl, key, t) ELSE NULL
        quote == getValidQuote(qs, body.quote_id, t)
        validated == getValidQuoteStore(qs, body.quote_id, t)
    IN  IF ~PayCallBodySchema(body)
        THEN Sent(Reply(key, body, 400, Error("validation_error", << >>)), qs)
        ELSE IF cached # NULL
        THEN Sent(Reply(key, body, 200, JSONstringify(JSONparse(cached.response_json))), qs)
        ELSE IF quote = NULL
        THEN Sent(Reply(key, body, 409, Error("expired_or_missing_quote", << >>)), validated)
        ELSE IF quote.endpoint # body.request.endpoint
        THEN Sent(Reply(key, body, 400, Error("endpoint_mismatch", << >>)), validated)
        ELSE [reply |-> NULL, quotes |-> validated, verifierCalled |-> TRUE,
              quote |-> quote]

paycallNoEndpointCheck(key, body, tbl, qs, t) ==
    LET cached == IF key # "" THEN getIdempotencyKey(tbl, key, t) ELSE NULL
        quote == getValidQuote(qs, body.quote_id, t)
        validated == getValidQuoteStore(qs, body.quote_id, t)
    IN  IF cached # NULL
        THEN Sent(Reply(key, body, 200, JSONstringify(JSONparse(cached.response_json))), qs)
        ELSE IF ~PayCallBodySchema(body)
        THEN Sent(Reply(key, body, 400, Error("validation_error", << >>)), qs)
        ELSE IF quote = NULL
        THEN Sent(Reply(key, body, 409, Error("expired_or_missing_quote", << >>)), validated)
        ELSE [reply |-> NULL, quotes |-> validated, verifierCalled |-> TRUE,
              quote |-> quote]

(* Mutant: the endpoint is compared before the quote is validated. *)
paycallEndpointBeforeQuote(key, body, tbl, qs, t) ==
    LET cached == IF key # "" THEN getIdempotencyKey(tbl, key, t) ELSE NULL
        stored == getQuote(qs, body.quote_id)
        quote == getValidQuote(qs, body.quote_id, t)
        validated == getValidQuoteStore(qs, body.quote_id, t)
    IN  IF cached # NULL
        THEN Sent(Reply(key, body, 200, JSONstringify(JSONparse(cached.response_json))), qs)
        ELSE IF ~PayCallBodySchema(body)
        THEN Sent(Reply(key, body, 400, Error("validation_error", << >>)), qs)
        ELSE IF stored # NULL /\ stored.endpoint # body.request.endpoint
        THEN Sent(Reply(key, body, 400, Error("endpoint_mismatch", << >>)), qs)
        ELSE IF quote = NULL
        THEN Sent(Reply(key, body, 409, Error("expired_or_missing_quote", << >>)), validated)
        ELSE [reply |-> NULL, quotes |-> validated, verifierCalled |-> TRUE,
              quote |-> quote]

paycall(key, body, tbl, qs, t) ==
    LET cached == IF key # "" THEN getIdempotencyKey(tbl, key, t) ELSE NULL
        quote == getValidQuote(qs, body.quote_id, t)
        validated == getValidQuoteStore(qs, body.quote_id, t)
    IN  IF cached # NULL
        THEN Sent(Reply(key, body, 200, JSONstringify(JSONparse(cached.response_json))), qs)
        ELSE IF ~PayCallBodySchema(body)
        THEN Sent(Reply(key, body, 400, Error("validation_error", << >>)), qs)
        ELSE IF quote = NULL
        THEN Sent(Reply(key, body, 409, Error("expired_or_missing_quote", << >>)), validated)
        ELSE IF quote.endpoint # body.request.endpoint
        THEN Sent(Reply(key, body, 400, Error("endpoint_mismatch", << >>)), validated)
        ELSE [reply |-> NULL, quotes |-> validated, verifierCalled |-> TRUE,
              quote |-> quote]

Paycall(key, body) ==
    /\ calls < MaxCalls
    /\ LET out == paycall(key, body, idem, quotes, now) IN
       /\ quotes' = out.quotes
       /\ IF out.verifierCalled
          THEN /\ inflight' = inflight (+) SetToBag({
                      [pc |-> "awaitVerify", key |-> key, body |-> body,
                       quote |-> out.quote, tCall |-> now, verified |-> NULL,
                       paymentId |-> << >>, jobId |-> << >>, outcome |-> NULL,
                       invoked |-> 0]})
               /\ UNCHANGED sent
          ELSE /\ sent' = Append(sent, out.reply)
               /\ UNCHANGED inflight
    /\ UNCHANGED <<now, paymentsMode, payments, jobs, idem, ticks, direct>>

(***************************************************************************)
(* The handler resumes with the result of verifySpend: 402, or the payment *)
(* is recorded, the quote marked used and the job created (createJob runs  *)
(* up to its return before the handler awaits it).                         *)
(***************************************************************************)
createJob(js, endpoint, args, paymentId) ==
    LET jobId == nanoid("job_", js) IN
    dbCreateJob(js, [id |-> jobId, payment_id |-> paymentId, endpoint |-> endpoint,
                     args_json |-> args, status |-> "queued",
                     result_json |-> << >>, error_message |-> << >>])

recordPayment(ps, r, verified) ==
    createPayment(ps, [id |-> nanoid("pay_", ps),
                       quote_id |-> r.body.quote_id,
                       sender_pubkey |-> r.body.ark_payment.sender_pubkey,
                       paid_sats |-> OrDefault(verified.actualSats, r.quote.price_sats),
                       ark_ref |-> verified.settlementRef,
                       vtxo_spend |-> r.body.ark_payment.vtxo_spend,
                       proof |-> r.body.ark_payment.proof,
                       status |-> "verified"])

(* Mutant: a rejected claim consumes the quote all the same. *)
VerifyResumeRejectConsumes(r) ==
    /\ BagIn(r, inflight)
    /\ r.pc = "awaitVerify"
    /\ LET verified == verifySpend(paymentsMode, r.quote.price_sats,
                                   r.body.ark_payment.vtxo_spend,
                                   r.body.ark_payment.proof, r.tCall, now)
           paymentId == nanoid("pay_", payments)
           jobId == nanoid("job_", jobs)
       IN
       IF ~verified.ok
       THEN /\ sent' = Append(sent, Reply(r.key, r.body, 402,
                                          Error("payment_invalid", verified.reason)))
            /\ inflight' = Finish(r)
            /\ quotes' = markQuoteUsed(quotes, r.body.quote_id)
            /\ UNCHANGED <<payments, jobs>>
       ELSE /\ payments' = recordPayment(payments, r, verified)
            /\ quotes' = markQuoteUsed(quotes, r.body.quote_id)
            /\ jobs' = createJob(jobs, r.body.request.endpoint, r.body.request.args, paymentId)
            /\ inflight' = Suspend(r, [r EXCEPT !.pc = "awaitCreateJob",
                                                !.verified = verified,
                                                !.paymentId = paymentId,
                                                !.jobId = jobId])
            /\ UNCHANGED sent
    /\ UNCHANGED <<now, paymentsMode, idem, ticks, direct>>

(* Mutant: the 402 of a rejected claim is stored under the request's key. *)
VerifyResumeCachesRejection(r) ==
    /\ BagIn(r, inflight)
    /\ r.pc = "awaitVerify"
    /\ LET verified == verifySpend(paymentsMode, r.quote.price_sats,
                                   r.body.ark_payment.vtxo_spend,
                                   r.body.ark_payment.proof, r.tCall, now)
           paymentId == nanoid("pay_", payments)
           jobId == nanoid("job_", jobs)
       IN
       IF ~verified.ok
       THEN /\ sent' = Append(sent, Reply(r.key, r.body, 402,
                                          Error("payment_invalid", verified.reason)))
            /\ inflight' = Finish(r)
            /\ idem' = IF r.key # ""
                       THEN setIdempotencyKey(idem, r.key,
                                <<"json", Error("payment_invalid", verified.reason)>>,
                                IDEM_TTL_S, now)
                       ELSE idem
            /\ UNCHANGED <<quotes, payments, jobs>>
       ELSE /\ payments' = recordPayment(payments, r, verified)
            /\ quotes' = markQuoteUsed(quotes, r.body.quote_id)
            /\ jobs' = createJob(jobs, r.body.request.endpoint, r.body.request.args, paymentId)
            /\ inflight' = Suspend(r, [r EXCEPT !.pc = "awaitCreateJob",
                                                !.verified = verified,
                                                !.paymentId = paymentId,
                                                !.jobId = jobId])
            /\ UNCHANGED <<sent, idem>>
    /\ UNCHANGED <<now, paymentsMode, ticks, direct>>

VerifyResume(r) ==
    /\ BagIn(r, inflight)
    /\ r.pc = "awaitVerify"
    /\ LET verified == verifySpend(paymentsMode, r.quote.price_sats,
                                   r.body.ark_payment.vtxo_spend,
                                   r.body.ark_payment.proof, r.tCall, now)
           paymentId == nanoid("pay_", payments)
           jobId == nanoid("job_", jobs)
       IN
       IF ~verified.ok
       THEN /\ sent' = Append(sent, Reply(r.key, r.body, 402,
                                          Error("payment_invalid", verified.reason)))
            /\ inflight' = Finish(r)
            /\ UNCHANGED <<quotes, payments, jobs>>
       ELSE /\ payments' = recordPayment(payments, r, verified)
            /\ quotes' = markQuoteUsed(quotes, r.body.quote_id)
            /\ jobs' = createJob(jobs, r.body.request.endpoint, r.body.request.args, paymentId)
            /\ inflight' = Suspend(r, [r EXCEPT !.pc = "awaitCreateJob",
                                                !.verified = verified,
                                                !.paymentId = paymentId,
                                                !.jobId = jobId])
            /\ UNCHANGED sent
    /\ UNCHANGED <<now, paymentsMode, idem, ticks, direct>>

(***************************************************************************)
(* JobsService.executeJob, up to its first await: the job goes to          *)
(* processing and the worker is called (it runs up to its return); with no *)
(* worker registered the job fails at once.                                *)
(***************************************************************************)
Terminal(job) == job.status \in {"completed", "failed"}

Processing(js, j) == updateJob(js, j, [NoUpdates EXCEPT !.status = <<"processing">>])

(* Mutant: a job of an endpoint without a worker returns nothing, no error. *)
executeJobCallSkipsMissing(js, jobId, t) ==
    LET job == getJob(js, jobId) IN
    IF HasWorker(job.endpoint)
    THEN WORKERS(job.endpoint, job.args_json, t)
    ELSE Returned(NULL)

executeJobCall(js, jobId, t) ==
    LET job == getJob(js, jobId) IN
    IF HasWorker(job.endpoint)
    THEN WORKERS(job.endpoint, job.args_json, t)
    ELSE Thrown(<<"no worker for endpoint: ", job.endpoint>>)

(* Mutant: a job whose worker threw is closed as completed, the error kept. *)
executeJobSettleErrorCompletes(js, jobId, call, t) ==
    IF call.threw
    THEN updateJob(js, jobId, [NoUpdates EXCEPT !.status = <<"completed">>,
                                                !.error_message = <<call.message>>,
                                                !.completed_at = <<toISOString(t)>>])
    ELSE updateJob(js, jobId, [NoUpdates EXCEPT !.status = <<"completed">>,
                                                !.result_json = <<call.value>>,
                                                !.completed_at = <<toISOString(t)>>])

executeJobSettle(js, jobId, call, t) ==
    IF call.threw
    THEN updateJob(js, jobId, [NoUpdates EXCEPT !.status = <<"failed">>,
                                                !.error_message = <<call.message>>,
                                                !.completed_at = <<toISOString(t)>>])
    ELSE updateJob(js, jobId, [NoUpdates EXCEPT !.status = <<"completed">>,
                                                !.result_json = <<call.value>>,
                                                !.completed_at = <<toISOString(t)>>])

JobResult(call) ==
    IF call.threw THEN [status |-> "error", error |-> call.message]
    ELSE [status |-> "ok", result |-> call.value]

CreateJobResume(r) ==
    /\ BagIn(r, inflight)
    /\ r.pc = "awaitCreateJob"
    /\ LET processing == updateJob(jobs, r.jobId, [NoUpdates EXCEPT !.status = <<"processing">>])
           call == executeJobCall(processing, r.jobId, now)
       IN
       IF HasWorker(getJob(jobs, r.jobId).endpoint)
       THEN /\ jobs' = processing
            /\ inflight' = Suspend(r, [r EXCEPT !.pc = "awaitWorker", !.outcome = call,
                                                !.invoked = @ + 1])
       ELSE /\ jobs' = executeJobSettle(processing, r.jobId, call, now)
            /\ inflight' = Suspend(r, [r EXCEPT !.pc = "awaitExecute",
                                                !.outcome = JobResult(call)])
    /\ UNCHANGED <<now, paymentsMode, quotes, payments, idem, sent, ticks, direct>>

(* Mutant: a worker that threw is called once more before the job settles. *)
WorkerResumeRetries(r) ==
    /\ BagIn(r, inflight)
    /\ r.pc = "awaitWorker"
    /\ IF r.outcome.threw /\ r.invoked < 2
       THEN /\ inflight' = Suspend(r, [r EXCEPT !.outcome = executeJobCall(jobs, r.jobId, now),
                                                !.invoked = @ + 1])
            /\ UNCHANGED jobs
       ELSE /\ jobs' = executeJobSettle(jobs, r.jobId, r.outcome, now)
            /\ inflight' = Suspend(r, [r EXCEPT !.pc = "awaitExecute",
                                                !.outcome = JobResult(r.outcome)])
    /\ UNCHANGED <<now, paymentsMode, quotes, payments, idem, sent, ticks, direct>>

(* executeJob resumes with what the worker returned or threw. *)
WorkerResume(r) ==
    /\ BagIn(r, inflight)
    /\ r.pc = "awaitWorker"
    /\ jobs' = executeJobSettle(jobs, r.jobId, r.outcome, now)
    /\ inflight' = Suspend(r, [r EXCEPT !.pc = "awaitExecute", !.outcome = JobResult(r.outcome)])
    /\ UNCHANGED <<now, paymentsMode, quotes, payments, idem, sent, ticks, direct>>

(***************************************************************************)
(* The handler resumes with the JobResult: 500, or the response is built,  *)
(* cached under the idempotency key and sent.                              *)
(***************************************************************************)
(* Mutant: the receipt names ids drawn afresh when the response is built. *)
BuildResponseFreshIds(r) ==
    [status |-> "ok",
     result |-> r.outcome.result,
     receipt |-> [settlement_ref |-> r.verified.settlementRef,
                  paid_sats |-> OrDefault(r.verified.actualSats, r.quote.price_sats),
                  job_id |-> nanoid("job_", jobs),
                  payment_id |-> nanoid("pay_", payments)]]

BuildResponse(r) ==
    [status |-> "ok",
     result |-> r.outcome.result,
     receipt |-> [settlement_ref |-> r.verified.settlementRef,
                  paid_sats |-> OrDefault(r.verified.actualSats, r.quote.price_sats),
                  job_id |-> r.jobId,
                  payment_id |-> r.paymentId]]

cacheResponse(tbl, key, response, t) ==
    IF key # "" THEN setIdempotencyKey(tbl, key, JSONstringify(response), IDEM_TTL_S, t)
    ELSE tbl

(* Mutant: the error response is cached under the key like a success. *)
ExecuteResumeCachesFailure(r) ==
    /\ BagIn(r, inflight)
    /\ r.pc = "awaitExecute"
    /\ inflight' = Finish(r)
    /\ IF r.outcome.status = "error"
       THEN /\ sent' = Append(sent, Reply(r.key, r.body, 500,
                                          Error("job_execution_failed", r.outcome.error)))
            /\ idem' = IF r.key # ""
                       THEN setIdempotencyKey(idem, r.key,
                                <<"json", Error("job_execution_failed", r.outcome.error)>>,
                                IDEM_TTL_S, now)
                       ELSE idem
       ELSE /\ idem' = cacheResponse(idem, r.key, BuildResponse(r), now)
            /\ sent' = Append(sent, Reply(r.key, r.body, 200, JSONstringify(BuildResponse(r))))
    /\ UNCHANGED <<now, paymentsMode, quotes, payments, jobs, ticks, direct>>

(* Mutant: a request whose job failed is dropped without a response. *)
ExecuteResumeDropsFailure(r) ==
    /\ BagIn(r, inflight)
    /\ r.pc = "awaitExecute"
    /\ inflight' = Finish(r)
    /\ IF r.outcome.status = "error"
       THEN UNCHANGED <<sent, idem>>
       ELSE /\ idem' = cacheResponse(idem, r.key, BuildResponse(r), now)
            /\ sent' = Append(sent, Reply(r.key, r.body, 200, JSONstringify(BuildResponse(r))))
    /\ UNCHANGED <<now, paymentsMode, quotes, payments, jobs, ticks, direct>>

ExecuteResume(r) ==
    /\ BagIn(r, inflight)
    /\ r.pc = "awaitExecute"
    /\ inflight' = Finish(r)
    /\ IF r.outcome.status = "error"
       THEN /\ sent' = Append(sent, Reply(r.key, r.body, 500,
                                          Error("job_execution_failed", r.outcome.error)))
            /\ UNCHANGED idem
       ELSE /\ idem' = cacheResponse(idem, r.key, BuildResponse(r), now)
            /\ sent' = Append(sent, Reply(r.key, r.body, 200, JSONstringify(BuildResponse(r))))
    /\ UNCHANGED <<now, paymentsMode, quotes, payments, jobs, ticks, direct>>

(***************************************************************************)
(* setInterval: QuotesService.cleanupExpired -> DB.cleanupExpired.         *)
(***************************************************************************)
cleanupExpired ==
    /\ idem' = cleanupIdempotency(idem, now)
    /\ quotes' = cleanupQuotes(quotes, now)
    /\ UNCHANGED <<now, paymentsMode, payments, jobs, inflight, sent, ticks, direct>>

(***************************************************************************)
(* The wall clock.                                                         *)
(***************************************************************************)
ClockSteps == {QUOTE_TTL_MS, QUOTE_TTL_MS + 1, IDEM_TTL_S * 1000 + 1, MS_PER_DAY}

Tick(d) ==
    /\ ticks < MaxTicks
    /\ now' = now + d
    /\ ticks' = ticks + 1
    /\ UNCHANGED <<paymentsMode, quotes, payments, jobs, idem, inflight, sent, direct>>

Handlers == BagToSet(inflight)

Next ==
    \/ \E query \in QuoteQueries : GetQuote(query)
    \/ \E key \in Keys, body \in Bodies : Paycall(key, body)
    \/ \E r \in Handlers : VerifyResume(r)
    \/ \E r \in Handlers : CreateJobResume(r)
    \/ \E r \in Handlers : WorkerResume(r)
    \/ \E r \in Handlers : ExecuteResume(r)
    \/ cleanupExpired
    \/ \E d \in ClockSteps : Tick(d)

Spec == Init /\ [][Next]_vars

(***************************************************************************)
(* ArkVerifier.verifySpend called directly, as its unit tests call it: the *)
(* request and what the call resolved to are kept in direct.  The round is *)
(* answered without delay, so the clock reads the same on both sides of    *)
(* the await.                                                              *)
(***************************************************************************)
NineChars == SubSeq(GoodSpend, 1, MIN_BLOB_LEN - 1)

TenChars == SubSeq(GoodSpend, 1, MIN_BLOB_LEN)

SignChars == <<"+", "/", "=", "+", "/", "=", "A", "z", "0", "9">>

Blobs == {<< >>, ShortBlob, NineChars, TenChars, SignChars, GoodProof, BadCharBlob}

VerificationRequests ==
    [expectedSats : {50, 100}, spendBlob : Blobs, proof : Blobs]

VerifySpendCall(req) ==
    /\ Cardinality(direct) < MaxCalls
    /\ direct' = direct \cup
           {[fn |-> "verifySpend", req |-> req, at |-> now,
             result |-> verifySpend(paymentsMode, req.expectedSats,
                                    req.spendBlob, req.proof, now, now)]}
    /\ UNCHANGED <<now, paymentsMode, quotes, payments, jobs, idem, inflight, sent, ticks>>

NextVerify ==
    \/ \E req \in VerificationRequests : VerifySpendCall(req)
    \/ \E d \in ClockSteps : Tick(d)

SpecVerify == Init /\ [][NextVerify]_vars

(***************************************************************************)
(* GET /v1/quote as a client sees it: the query and the quote sent back    *)
(* are kept in direct.  A query names one unit kind, the one that prices   *)
(* the endpoint or tokens, with a count, or no unit at all.                *)
(***************************************************************************)
Endpoints == {"summarize", "generate_image", "translate", "compute", "other"}

UnitOf(endpoint) ==
    CASE endpoint = "summarize" -> "tokens"
      [] endpoint = "generate_image" -> "images"
      [] endpoint = "translate" -> "characters"
      [] endpoint = "compute" -> "seconds"
      [] OTHER -> "amount"

UnitCounts == {0, 1, 3, 99, 100, 101, 1000}

UnitKinds == {"tokens", "images", "characters", "seconds", "amount"}

PricingQueries ==
    { query \in [endpoint : Endpoints,
                 units : { [NoUnits EXCEPT ![k] = n] : k \in UnitKinds, n \in UnitCounts }] :
          \A k \in UnitKinds :
              query.units[k] # 0 => k \in {UnitOf(query.endpoint), "tokens"} }

QuoteCall(query) ==
    /\ Cardinality(DOMAIN quotes) < MaxQuotes
    /\ quotes' = createQuote(quotes, query.endpoint, query.units, now)
    /\ LET quote == quotes'[nanoid("q_", quotes)] IN
       direct' = direct \cup
           {[fn |-> "GET /v1/quote", req |-> query, at |-> now,
             result |-> [quote_id |-> quote.id, endpoint |-> quote.endpoint,
                         units |-> quote.units, price_sats |-> quote.price_sats,
                         expires_at |-> quote.expires_at]]}
    /\ UNCHANGED <<now, paymentsMode, payments, jobs, idem, inflight, sent, ticks>>

NextPricing ==
    \/ \E query \in PricingQueries : QuoteCall(query)
    \/ cleanupExpired
    \/ \E d \in ClockSteps : Tick(d)

SpecPricing == Init /\ [][NextPricing]_vars

(***************************************************************************)
(* GET /v1/quote with the numbers the query schema lets through:           *)
(* z.coerce.number() takes zero and negative values as well.               *)
(***************************************************************************)
SignedCounts == {-101, -100, -1, 0, 1, 100}

SignedQueries ==
    { query \in [endpoint : Endpoints,
                 units : { [NoUnits EXCEPT ![k] = n] : k \in UnitKinds, n \in SignedCounts }] :
          \A k \in UnitKinds :
              query.units[k] # 0 => k = UnitOf(query.endpoint) }

NextUnits ==
    \/ \E query \in SignedQueries : QuoteCall(query)
    \/ \E d \in ClockSteps : Tick(d)

SpecUnits == Init /\ [][NextUnits]_vars

(***************************************************************************)
(* The service with the faults of its environment.  The handler's writes   *)
(* are separate statements of better-sqlite3, each committed on its own:   *)
(* the process can be killed between two of them, and a write can throw.   *)
(* The database is a file and outlives the process; the suspended handlers *)
(* do not.  QuotesService takes its ASP client as a constructor argument:  *)
(* the round query of the client it is given resolves or rejects.          *)
(***************************************************************************)
FaultKeys == {"key-1"}

FaultBodies ==
    { body \in Bodies : /\ body.quote_id # << >>
                        /\ body.ark_payment = GoodClaim
                        /\ body.request = [endpoint |-> "summarize", args |-> TextArgs] }

(* The process dies after createPayment returned, before markQuoteUsed. *)
CrashAfterPayment(r) ==
    /\ BagIn(r, inflight)
    /\ r.pc = "awaitVerify"
    /\ Cardinality(DOMAIN payments) < MaxCalls
    /\ LET verified == verifySpend(paymentsMode, r.quote.price_sats,
                                   r.body.ark_payment.vtxo_spend,
                                   r.body.ark_payment.proof, r.tCall, now)
       IN  /\ verified.ok
           /\ payments' = recordPayment(payments, r, verified)
    /\ inflight' = EmptyBag
    /\ UNCHANGED <<now, paymentsMode, quotes, jobs, idem, sent, ticks, direct>>

(* markQuoteUsed throws after createPayment returned: the handler's catch  *)
(* answers 500 internal_error with the message of the error.               *)
MarkUsedFails(r) ==
    /\ BagIn(r, inflight)
    /\ r.pc = "awaitVerify"
    /\ Cardinality(DOMAIN payments) < MaxCalls
    /\ LET verified == verifySpend(paymentsMode, r.quote.price_sats,
                                   r.body.ark_payment.vtxo_spend,
                                   r.body.ark_payment.proof, r.tCall, now)
       IN  /\ verified.ok
           /\ payments' = recordPayment(payments, r, verified)
    /\ sent' = Append(sent, Reply(r.key, r.body, 500,
                                  Error("internal_error", <<"database is locked">>)))
    /\ inflight' = Finish(r)
    /\ UNCHANGED <<now, paymentsMode, quotes, jobs, idem, ticks, direct>>

(* GET /v1/quote with the client's round query resolving or rejecting: the *)
(* await in createQuote comes before db.createQuote and has no catch of    *)
(* its own, so a rejection leaves createQuote at once and the route's      *)
(* catch answers 500 internal_error.  The query, the outcome of the round  *)
(* query and the response are kept in direct.                              *)
RoundFailure == Thrown(<<"round query failed">>)

Rounds(t) == {getCurrentRound(t), RoundFailure}

FailedRounds == {c \in direct : c.round = RoundFailure}

QuoteIssue(query, round) ==
    /\ Cardinality(DOMAIN quotes) < MaxQuotes
    /\ Cardinality(FailedRounds) < MaxCalls
    /\ IF round = RoundFailure
       THEN /\ quotes' = quotes
            /\ direct' = direct \cup
                   {[fn |-> "GET /v1/quote", req |-> query, at |-> now, round |-> round,
                     code |-> 500,
                     result |-> Error("internal_error", round.message)]}
       ELSE /\ quotes' = createQuote(quotes, query.endpoint, query.units, now)
            /\ LET quote == quotes'[nanoid("q_", quotes)] IN
               direct' = direct \cup
                   {[fn |-> "GET /v1/quote", req |-> query, at |-> now, round |-> round,
                     code |-> 200,
                     result |-> [quote_id |-> quote.id, endpoint |-> quote.endpoint,
                                 units |-> quote.units, price_sats |-> quote.price_sats,
                                 expires_at |-> quote.expires_at,
                                 round_hint |-> round.roundId]]}
    /\ UNCHANGED <<now, paymentsMode, payments, jobs, idem, inflight, sent, ticks>>

NextFaults ==
    \/ \E query \in QuoteQueries, round \in Rounds(now) : QuoteIssue(query, round)
    \/ \E key \in FaultKeys, body \in FaultBodies : Paycall(key, body)
    \/ \E r \in Handlers : VerifyResume(r)
    \/ \E r \in Handlers : CreateJobResume(r)
    \/ \E r \in Handlers : WorkerResume(r)
    \/ \E r \in Handlers : ExecuteResume(r)
    \/ \E r \in Handlers : CrashAfterPayment(r)
    \/ \E r \in Handlers : MarkUsedFails(r)
    \/ \E d \in ClockSteps : Tick(d)

SpecFaults == Init /\ [][NextFaults]_vars

(***************************************************************************)
(* The service asked for every kind of job: an endpoint with a worker that *)
(* returns (summarize with a text), one whose worker throws (summarize     *)
(* without a text) and one no worker is registered for ("other", priced by *)
(* the default rule).  Every claim is well formed, so every request with a *)
(* usable quote of its endpoint gets past verification.                    *)
(***************************************************************************)
JobEndpoints == {"summarize", "other"}

JobQueries == { [endpoint |-> e, units |-> NoUnits] : e \in JobEndpoints }

JobBodies ==
    { [quote_id |-> q, ark_payment |-> GoodClaim,
       request |-> [endpoint |-> e, args |-> a]] :
          q \in QuoteIds \ {<< >>}, e \in JobEndpoints, a \in {TextArgs, NoArgs} }

NextJobs ==
    \/ \E query \in JobQueries : GetQuote(query)
    \/ \E key \in Keys, body \in JobBodies : Paycall(key, body)
    \/ \E r \in Handlers : VerifyResume(r)
    \/ \E r \in Handlers : CreateJobResume(r)
    \/ \E r \in Handlers : WorkerResume(r)
    \/ \E r \in Handlers : ExecuteResume(r)
    \/ \E d \in ClockSteps : Tick(d)

SpecJobs == Init /\ [][NextJobs]_vars

(***************************************************************************)
(* JobsService.executeJob called directly, by job id, next to the service: *)
(* it is a public method and takes any id.  The call sets the job to       *)
(* processing and calls the worker, then resumes from the await and        *)
(* settles the job; what the job was before, whether the worker was        *)
(* invoked and what the job is afterwards are kept in direct.              *)
(***************************************************************************)
JobIds == {<<"job_", n>> : n \in 1..MaxCalls}

ExecutorBodies ==
    { [quote_id |-> q, ark_payment |-> GoodClaim,
       request |-> [endpoint |-> "summarize", args |-> a]] :
          q \in QuoteIds \ {<< >>}, a \in {TextArgs, NoArgs} }

DirectCalls == {r \in Handlers : r.pc = "awaitWorkerDirect"}

ExecuteJobCall(j) ==
    /\ calls + Cardinality(direct) < MaxCalls
    /\ \A r \in DirectCalls : r.jobId # j
    /\ IF getJob(jobs, j) = NULL
       THEN /\ direct' = direct \cup
                   {[fn |-> "executeJob", jobId |-> j, before |-> NULL, invoked |-> FALSE,
                     after |-> NULL, result |-> Thrown(<<"job not found">>)]}
            /\ UNCHANGED <<jobs, inflight>>
       ELSE /\ jobs' = Processing(jobs, j)
            /\ inflight' = inflight (+) SetToBag({
                   [pc |-> "awaitWorkerDirect", jobId |-> j, before |-> jobs[j],
                    invoked |-> HasWorker(jobs[j].endpoint),
                    outcome |-> executeJobCall(Processing(jobs, j), j, now)]})
            /\ UNCHANGED direct
    /\ UNCHANGED <<now, paymentsMode, quotes, payments, idem, sent, ticks>>

ExecuteJobResume(r) ==
    /\ BagIn(r, inflight)
    /\ r.pc = "awaitWorkerDirect"
    /\ jobs' = executeJobSettle(jobs, r.jobId, r.outcome, now)
    /\ inflight' = Finish(r)
    /\ direct' = direct \cup
           {[fn |-> "executeJob", jobId |-> r.jobId, before |-> r.before,
             invoked |-> r.invoked, after |-> jobs'[r.jobId],
             result |-> JobResult(r.outcome)]}
    /\ UNCHANGED <<now, paymentsMode, quotes, payments, idem, sent, ticks>>

NextExecutor ==
    \/ \E query \in QuoteQueries : GetQuote(query)
    \/ \E key \in FaultKeys, body \in ExecutorBodies : Paycall(key, body)
    \/ \E r \in Handlers : VerifyResume(r)
    \/ \E r \in Handlers : CreateJobResume(r)
    \/ \E r \in Handlers : WorkerResume(r)
    \/ \E r \in Handlers : ExecuteResume(r)
    \/ \E j \in JobIds : ExecuteJobCall(j)
    \/ \E r \in Handlers : ExecuteJobResume(r)
    \/ \E d \in ClockSteps : Tick(d)

SpecExecutor == Init /\ [][NextExecutor]_vars

(***************************************************************************)
(* The service with its promises resolving: the verifier, createJob, the   *)
(* worker and executeJob each settle, so a suspended handler is resumed in *)
(* the end.  Requests and the clock are under no obligation.  The service  *)
(* runs with PAYMENTS_MODE=free; the other modes differ in the settlement  *)
(* reference verifySpend builds, not in where the handler waits.           *)
(***************************************************************************)
InitLive == Init /\ paymentsMode = "free"

LiveBodies ==
    { body \in Bodies : /\ body.quote_id # << >>
                        /\ body.request.endpoint = "summarize"
                        /\ body.ark_payment \in {GoodClaim, BadFormatClaim} }

NextLive ==
    \/ \E query \in QuoteQueries : GetQuote(query)
    \/ \E key \in FaultKeys, body \in LiveBodies : Paycall(key, body)
    \/ \E r \in Handlers : VerifyResume(r)
    \/ \E r \in Handlers : CreateJobResume(r)
    \/ \E r \in Handlers : WorkerResume(r)
    \/ \E r \in Handlers : ExecuteResume(r)
    \/ \E d \in ClockSteps : Tick(d)

SpecLive ==
    /\ InitLive
    /\ [][NextLive]_vars
    /\ WF_vars(\E r \in Handlers : VerifyResume(r))
    /\ WF_vars(\E r \in Handlers : CreateJobResume(r))
    /\ WF_vars(\E r \in Handlers : WorkerResume(r))
    /\ WF_vars(\E r \in Handlers : ExecuteResume(r))

(***************************************************************************)
(* Vocabulary of the properties.                                           *)
(***************************************************************************)
IssuedQuotes == DOMAIN quotes

PaymentsOf(q) == {p \in DOMAIN payments : payments[p].quote_id = q}

Cached(key) == key # "" /\ getIdempotencyKey(idem, key, now) # NULL

Expired(q) == DateParse(quotes[q].expires_at) < now

Mismatch(body) ==
    /\ body.quote_id \in IssuedQuotes
    /\ quotes[body.quote_id].endpoint # body.request.endpoint

PastExpiry(q) == q \in IssuedQuotes /\ (Expired(q) \/ quotes[q].status = "expired")

Answer(key, body, code, payload) == sent' = Append(sent, Reply(key, body, code, payload))

OthersKept(q) == \A x \in IssuedQuotes \ {q} : quotes'[x] = quotes[x]

(***************************************************************************)
(* C1: for a single quote, whatever the interleaving of the paycall        *)
(* requests that reference it, at most one of them records a payment: no   *)
(* quote ever has two payment records.                                     *)
(***************************************************************************)
C1_OnePaymentPerQuote ==
    \A q \in IssuedQuotes : Cardinality(PaymentsOf(q)) <= 1

(***************************************************************************)
(* C2, as claimed: once a payment is recorded for quote q, every later     *)
(* paycall that names q and is not answered from the cache is answered 409 *)
(* expired_or_missing_quote and creates no payment and no job.             *)
(***************************************************************************)
C2_LaterPaycallIs409 ==
    [][\A key \in Keys, body \in Bodies :
          (Paycall(key, body) /\ PaymentsOf(body.quote_id) # {} /\ ~Cached(key))
          => /\ Answer(key, body, 409, Error("expired_or_missing_quote", << >>))
             /\ UNCHANGED <<payments, jobs>>]_vars

(***************************************************************************)
(* C2, amended: once a payment is recorded for quote q, a later paycall    *)
(* that names q and is not answered from the cache never reaches the       *)
(* verifier and creates no payment, job or cache entry; it is answered 409 *)
(* expired_or_missing_quote when its body passes the schema, and 400       *)
(* validation_error when it does not.                                      *)
(***************************************************************************)
C2_UsedQuoteRejected ==
    [][\A key \in Keys, body \in Bodies :
          (Paycall(key, body) /\ PaymentsOf(body.quote_id) # {} /\ ~Cached(key))
          => /\ inflight' = inflight
             /\ UNCHANGED <<payments, jobs, idem>>
             /\ IF PayCallBodySchema(body)
                THEN Answer(key, body, 409, Error("expired_or_missing_quote", << >>))
                ELSE Answer(key, body, 400, Error("validation_error", << >>))]_vars

(* A settled request for q was answered, and then a request for the used,  *)
(* unexpired q was answered 409.                                           *)
C2_Witness ==
    \E i, j \in 1..Len(sent) :
        /\ i < j
        /\ sent[i].quote_id = sent[j].quote_id
        /\ sent[i].code \in {200, 500}
        /\ sent[j].code = 409
        /\ sent[j].quote_id \in IssuedQuotes
        /\ quotes[sent[j].quote_id].status = "used"
        /\ ~Expired(sent[j].quote_id)
        /\ Cardinality(PaymentsOf(sent[j].quote_id)) = 1

(***************************************************************************)
(* C3: of the requests bearing one Idempotency-Key at most one records a   *)
(* payment and executes a job: no two handlers with the same key are both  *)
(* past the execution of their own job.                                    *)
(***************************************************************************)
C3_OneSettlementPerKey ==
    \A r1, r2 \in Handlers :
        (r1.key # "" /\ r1.key = r2.key /\ r1.pc = "awaitExecute" /\ r2.pc = "awaitExecute")
        => r1 = r2

(***************************************************************************)
(* C4: two submissions with the same Idempotency-Key within the key's      *)
(* lifetime get identical responses and run the payment/job machinery      *)
(* once: every response sent to a request bearing key k while k has a live *)
(* entry is the 200 response stored under k, and of the handlers bearing   *)
(* one key at most one has recorded a payment.                             *)
(***************************************************************************)
C4_SameKeySameResponse ==
    /\ [](\A r1, r2 \in Handlers :
             (r1.key # "" /\ r1.key = r2.key /\ r1.paymentId # << >> /\ r2.paymentId # << >>)
             => r1 = r2)
    /\ [][\A k \in Keys :
             (Cached(k) /\ Len(sent') > Len(sent) /\ last'.key = k)
             => /\ last'.code = 200
                /\ last'.payload = idem[k].response_json]_vars

(***************************************************************************)
(* C5: a paycall whose Idempotency-Key has a live cache entry is answered  *)
(* 200 with the stored response, whatever its body; the verifier is not    *)
(* called and no quote, payment, job or idempotency row is created or      *)
(* changed.                                                                *)
(***************************************************************************)
C5_CacheHitOnly ==
    [][\A key \in Keys, body \in Bodies :
          (Paycall(key, body) /\ Cached(key))
          => /\ Answer(key, body, 200, idem[key].response_json)
             /\ inflight' = inflight
             /\ UNCHANGED store]_vars

(* A settlement was answered 200 and cached, and then a request with an    *)
(* empty quote id got the same response, with one payment and one job in   *)
(* the store.                                                              *)
C5_Witness ==
    \E i, j \in 1..Len(sent) :
        /\ i < j
        /\ sent[i].code = 200
        /\ sent[i].quote_id \in IssuedQuotes
        /\ sent[j].code = 200
        /\ sent[j].quote_id = << >>
        /\ sent[j].payload = sent[i].payload
        /\ Cardinality(DOMAIN payments) = 1
        /\ Cardinality(DOMAIN jobs) = 1

(***************************************************************************)
(* C6: while the idempotency entry of key k is unexpired, the response     *)
(* stored under k never changes: a lookup of k that finds an entry before  *)
(* and after a step finds the same response.                               *)
(***************************************************************************)
C6_StoredResponseStable ==
    [][\A k \in Keys :
          (Cached(k) /\ getIdempotencyKey(idem', k, now') # NULL)
          => getIdempotencyKey(idem', k, now').response_json = idem[k].response_json]_vars

(***************************************************************************)
(* C7: a paycall whose payment claim the verifier rejects changes nothing  *)
(* on its way to the verifier and is answered 402 payment_invalid with the *)
(* verifier's reason, leaving quotes (the quote as it was, active if no    *)
(* other request consumed it), payments, jobs and idempotency entries      *)
(* unchanged.                                                              *)
(***************************************************************************)
C7_RejectedClaimChangesNothing ==
    [][/\ \A key \in Keys, body \in Bodies :
             (/\ Paycall(key, body)
              /\ inflight' # inflight
              /\ ~verifySpendCheck(body.ark_payment.vtxo_spend, body.ark_payment.proof).ok)
             => UNCHANGED <<store, sent>>
       /\ \A r \in Handlers :
             LET verified == verifySpend(paymentsMode, r.quote.price_sats,
                                         r.body.ark_payment.vtxo_spend,
                                         r.body.ark_payment.proof, r.tCall, now)
             IN  (VerifyResume(r) /\ ~verified.ok)
                 => /\ Answer(r.key, r.body, 402, Error("payment_invalid", verified.reason))
                    /\ inflight' = Finish(r)
                    /\ UNCHANGED store]_vars

(* A request for quote q was answered 402, and a later request for the     *)
(* same quote, still active and unexpired, settled and was answered 200.   *)
C7_Witness ==
    \E i, j \in 1..Len(sent) :
        /\ i < j
        /\ sent[i].code = 402
        /\ sent[i].payload = Error("payment_invalid", "invalid_payment_format")
        /\ sent[j].code = 200
        /\ sent[j].quote_id = sent[i].quote_id
        /\ \E p \in PaymentsOf(sent[j].quote_id) :
               JSONparse(sent[j].payload).receipt.payment_id = p
        /\ Cardinality(DOMAIN payments) = 1

(***************************************************************************)
(* C8, as claimed: a paycall whose request.endpoint differs from the       *)
(* endpoint of the quote it names is always answered 400 endpoint_mismatch *)
(* without a call of the verifier; the quote stays as it is and no         *)
(* payment, job or idempotency entry is created.                           *)
(***************************************************************************)
C8_MismatchAlways400 ==
    [][\A key \in Keys, body \in Bodies :
          (Paycall(key, body) /\ Mismatch(body))
          => /\ Answer(key, body, 400, Error("endpoint_mismatch", << >>))
             /\ inflight' = inflight
             /\ UNCHANGED store]_vars

(***************************************************************************)
(* C8, amended: a paycall whose request.endpoint differs from the endpoint *)
(* of the quote it names never reaches the verifier and creates no         *)
(* payment, job or idempotency entry; it is answered 400 endpoint_mismatch,*)
(* the quote staying active, when it is not answered from the cache, its   *)
(* body passes the schema and the quote is active and not past its expiry  *)
(* (the cache lookup, the schema and the quote validation come first and   *)
(* answer 200, 400 validation_error and 409).                              *)
(***************************************************************************)
C8_MismatchNeverVerified ==
    [][\A key \in Keys, body \in Bodies :
          (Paycall(key, body) /\ Mismatch(body))
          => /\ inflight' = inflight
             /\ UNCHANGED <<payments, jobs, idem>>
             /\ sent' # sent
             /\ last'.code \in {200, 400, 409}
             /\ (/\ ~Cached(key)
                 /\ PayCallBodySchema(body)
                 /\ quotes[body.quote_id].status = "active"
                 /\ ~Expired(body.quote_id))
                => /\ Answer(key, body, 400, Error("endpoint_mismatch", << >>))
                   /\ quotes' = quotes]_vars

(* A request was answered 400 endpoint_mismatch, its quote is active and   *)
(* nothing was paid.                                                       *)
C8_Witness ==
    \E i \in 1..Len(sent) :
        /\ sent[i].code = 400
        /\ sent[i].payload = Error("endpoint_mismatch", << >>)
        /\ quotes[sent[i].quote_id].status = "active"
        /\ payments = EmptyFn
        /\ jobs = EmptyFn
        /\ inflight = EmptyBag

(***************************************************************************)
(* C9, as claimed: a paycall, not answered from the cache, for a quote     *)
(* whose expiry time has passed or whose status is expired is always       *)
(* answered 409 expired_or_missing_quote; no payment or job is created and *)
(* a quote that was active is moved to expired.                            *)
(***************************************************************************)
C9_ExpiredAlways409 ==
    [][\A key \in Keys, body \in Bodies :
          (Paycall(key, body) /\ ~Cached(key) /\ PastExpiry(body.quote_id))
          => /\ Answer(key, body, 409, Error("expired_or_missing_quote", << >>))
             /\ UNCHANGED <<payments, jobs>>
             /\ quotes[body.quote_id].status = "active"
                => quotes'[body.quote_id].status = "expired"]_vars

(***************************************************************************)
(* C9, amended: a paycall, not answered from the cache, for a quote whose  *)
(* expiry time has passed or whose status is expired never reaches the     *)
(* verifier and creates no payment, job or idempotency entry.  With a body *)
(* that passes the schema it is answered 409 expired_or_missing_quote and  *)
(* a quote that was active is moved to expired, no other quote changing;   *)
(* with a body that fails the schema it is answered 400 validation_error   *)
(* and the quote is left as it is.                                         *)
(***************************************************************************)
C9_ExpiredRejected ==
    [][\A key \in Keys, body \in Bodies :
          (Paycall(key, body) /\ ~Cached(key) /\ PastExpiry(body.quote_id))
          => /\ inflight' = inflight
             /\ UNCHANGED <<payments, jobs, idem>>
             /\ OthersKept(body.quote_id)
             /\ IF PayCallBodySchema(body)
                THEN /\ Answer(key, body, 409, Error("expired_or_missing_quote", << >>))
                     /\ quotes[body.quote_id].status = "active"
                        => quotes'[body.quote_id].status = "expired"
                ELSE /\ Answer(key, body, 400, Error("validation_error", << >>))
                     /\ quotes' = quotes]_vars

(* A quote nobody paid for, one millisecond past its expiry, before any    *)
(* sweep could expire it: a request for it was answered 409 and the quote  *)
(* is expired.                                                             *)
C9_Witness ==
    \E i \in 1..Len(sent) :
        /\ sent[i].code = 409
        /\ sent[i].quote_id \in IssuedQuotes
        /\ PaymentsOf(sent[i].quote_id) = {}
        /\ now = DateParse(quotes[sent[i].quote_id].expires_at) + 1
        /\ quotes[sent[i].quote_id].status = "expired"

(***************************************************************************)
(* C10: when the job of a verified payment has failed, the paycall is      *)
(* answered 500 job_execution_failed with the message the handler threw;   *)
(* the response changes no quote, payment, job or idempotency entry: the   *)
(* payment stays recorded for the quote, the quote stays consumed (it is   *)
(* not active again), and no entry is written under the request's key.     *)
(***************************************************************************)
C10_JobFailureKeepsPayment ==
    [][\A r \in Handlers :
          (ExecuteResume(r) /\ jobs[r.jobId].status = "failed")
          => /\ Answer(r.key, r.body, 500,
                       Error("job_execution_failed", jobs[r.jobId].error_message[1]))
             /\ UNCHANGED store
             /\ r.paymentId \in PaymentsOf(r.body.quote_id)
             /\ quotes'[r.body.quote_id].status # "active"
             /\ payments'[r.paymentId].status = "verified"]_vars

(* summarize without text: the request was answered 500 with the message   *)
(* of the handler, its payment is recorded, its quote is used and nothing  *)
(* is stored under its key.                                                *)
C10_Witness ==
    \E i \in 1..Len(sent) :
        /\ sent[i].code = 500
        /\ sent[i].payload = Error("job_execution_failed", <<"text is required">>)
        /\ sent[i].key # ""
        /\ sent[i].key \notin DOMAIN idem
        /\ Cardinality(PaymentsOf(sent[i].quote_id)) = 1
        /\ quotes[sent[i].quote_id].status = "used"
        /\ \E j \in DOMAIN jobs : jobs[j].status = "failed"

(***************************************************************************)
(* C11: the response to a failed job writes no entry under the request's   *)
(* key.  After a paycall bearing key k for quote q was answered 500        *)
(* job_execution_failed, a resubmission (a body that passes the schema)    *)
(* with key k and quote q that finds no entry under k is answered 409      *)
(* expired_or_missing_quote and reaches neither the verifier nor the       *)
(* payments, jobs and idempotency tables; a request bearing k reaches the  *)
(* verifier again only with another quote, active, unexpired and unpaid.   *)
(***************************************************************************)
FailedBefore(key, q) ==
    \E i \in 1..Len(sent) :
        sent[i].code = 500 /\ sent[i].key = key /\ sent[i].quote_id = q

C11_RetryOfFailureIs409 ==
    [][/\ \A r \in Handlers :
             (ExecuteResume(r) /\ r.outcome.status = "error")
             => idem' = idem
       /\ \A key \in Keys \ {""}, body \in Bodies :
             (/\ Paycall(key, body)
              /\ FailedBefore(key, body.quote_id)
              /\ PayCallBodySchema(body)
              /\ ~Cached(key))
             => /\ Answer(key, body, 409, Error("expired_or_missing_quote", << >>))
                /\ inflight' = inflight
                /\ UNCHANGED <<payments, jobs, idem>>
       /\ \A key \in Keys \ {""}, body \in Bodies :
             (/\ Paycall(key, body)
              /\ \E q \in IssuedQuotes : FailedBefore(key, q)
              /\ inflight' # inflight)
             => /\ ~FailedBefore(key, body.quote_id)
                /\ quotes[body.quote_id].status = "active"
                /\ ~Expired(body.quote_id)
                /\ PaymentsOf(body.quote_id) = {}]_vars

(* A request bearing key-1 was answered 500 and its resubmission for the   *)
(* same, unexpired quote 409: one payment, one job, nothing under the key. *)
C11_Witness ==
    /\ Len(sent) = 2
    /\ sent[1].code = 500
    /\ sent[1].key = "key-1"
    /\ sent[2].key = "key-1"
    /\ sent[2].quote_id = sent[1].quote_id
    /\ sent[2].code = 409
    /\ ~Expired(sent[1].quote_id)
    /\ Cardinality(DOMAIN payments) = 1
    /\ Cardinality(DOMAIN jobs) = 1
    /\ idem = EmptyFn

(***************************************************************************)
(* C12: a lookup returns no entry once the entry's expiry (write time +    *)
(* 120 seconds) has passed, purged or not; a paycall carrying that key is  *)
(* then processed as a new request, i.e. as it is with no entry at all.    *)
(***************************************************************************)
Stale(key) == key \in DOMAIN idem /\ DateParse(idem[key].expires_at) < now

C12_ExpiredEntryNotReturned ==
    /\ [](\A k \in Keys : Stale(k) => getIdempotencyKey(idem, k, now) = NULL)
    /\ [][\A key \in Keys, body \in Bodies :
             (Paycall(key, body) /\ Stale(key))
             => LET fresh == paycall(key, body, EmptyFn, quotes, now) IN
                /\ quotes' = fresh.quotes
                /\ fresh.verifierCalled => sent' = sent /\ inflight' # inflight
                /\ ~fresh.verifierCalled => sent' = Append(sent, fresh.reply)]_vars

(***************************************************************************)
(* C13: a spend (vtxo_spend and proof) that has settled one quote is       *)
(* rejected when it is submitted for another: no two payments of different *)
(* quotes carry the same spend.                                            *)
(***************************************************************************)
SpendOf(p) == <<payments[p].vtxo_spend, payments[p].proof>>

C13_NoSpendSettlesTwoQuotes ==
    \A p1, p2 \in DOMAIN payments :
        SpendOf(p1) = SpendOf(p2) => payments[p1].quote_id = payments[p2].quote_id

WellFormed(blob) ==
    Len(blob) >= MIN_BLOB_LEN /\ \A i \in 1..Len(blob) : blob[i] \in Base64Chars

QuoteCalls == {c \in direct : c.fn = "GET /v1/quote"}

CountOf(query) == query.units[UnitOf(query.endpoint)]

SameButCount(q1, q2) ==
    /\ q1.endpoint = q2.endpoint
    /\ \A k \in UnitKinds \ {UnitOf(q1.endpoint)} : q1.units[k] = q2.units[k]

C16_PriceMonotone ==
    \A c1, c2 \in QuoteCalls :
        (SameButCount(c1.req, c2.req) /\ CountOf(c1.req) <= CountOf(c2.req))
        => c1.result.price_sats <= c2.result.price_sats

(***************************************************************************)
(* C17, as claimed: for every endpoint of the pricing schedule and every   *)
(* positive unit count the quoted price is the documented cost formula:    *)
(* ceiling(tokens/100) x 5 for summarize, images x 50 for generate_image,  *)
(* ceiling(characters/100) x 3 for translate, seconds x 10 for compute.    *)
(***************************************************************************)
Schedule == {"summarize", "generate_image", "translate", "compute"}

Hundreds(n) == CHOOSE h \in 0..n : h * 100 >= n /\ (h = 0 \/ (h - 1) * 100 < n)

LeastSats(n, rate) ==
    CHOOSE p \in 0..(n * rate) : p * 100 >= n * rate /\ (p = 0 \/ (p - 1) * 100 < n * rate)

C18_SameInputsSamePrice ==
    \A c1, c2 \in QuoteCalls :
        /\ c1.req = c2.req => c1.result.price_sats = c2.result.price_sats
        /\ quotes[c1.result.quote_id].price_sats = c1.result.price_sats

(* The same query with a count of its own was quoted twice, a day apart,   *)
(* the first quote swept to expired in between: two quotes, one price.     *)
C18_Witness ==
    \E c1, c2 \in QuoteCalls :
        /\ c1.req = c2.req
        /\ CountOf(c1.req) > 0
        /\ c1.at < c2.at
        /\ c1.result.quote_id # c2.result.quote_id
        /\ quotes[c1.result.quote_id].status = "expired"
        /\ quotes[c2.result.quote_id].status = "active"
        /\ c1.result.price_sats = c2.result.price_sats

(***************************************************************************)
(* C19: every 200 paycall response that is not a cache hit carries a       *)
(* receipt that matches the store: payment_id names a persisted verified   *)
(* payment of the quote the request named, job_id a completed job of that  *)
(* payment, paid_sats is the paid_sats of that payment and the price_sats  *)
(* of the quote, settlement_ref the reference recorded with the payment.   *)
(***************************************************************************)
C19_ReceiptMatchesStore ==
    [][\A r \in Handlers :
          (ExecuteResume(r) /\ last'.code = 200)
          => LET receipt == JSONparse(last'.payload).receipt IN
             /\ receipt.payment_id \in DOMAIN payments'
             /\ payments'[receipt.payment_id].status = "verified"
             /\ payments'[receipt.payment_id].quote_id = r.body.quote_id
             /\ receipt.job_id \in DOMAIN jobs'
             /\ jobs'[receipt.job_id].status = "completed"
             /\ jobs'[receipt.job_id].payment_id = receipt.payment_id
             /\ receipt.paid_sats = payments'[receipt.payment_id].paid_sats
             /\ receipt.paid_sats = quotes'[r.body.quote_id].price_sats
             /\ receipt.settlement_ref = payments'[receipt.payment_id].ark_ref]_vars

(* Two settlements were answered 200, each with the receipt of its own     *)
(* payment and job.                                                        *)
C19_Witness ==
    /\ Len(sent) = 2
    /\ sent[1].code = 200
    /\ sent[2].code = 200
    /\ sent[1].payload # sent[2].payload
    /\ \A i \in 1..2 :
          LET receipt == JSONparse(sent[i].payload).receipt IN
          /\ payments[receipt.payment_id].quote_id = sent[i].quote_id
          /\ jobs[receipt.job_id].payment_id = receipt.payment_id

(***************************************************************************)
(* C20: the checks of a paycall run in the order idempotency lookup, body  *)
(* validation, quote validation, endpoint match, payment verification, job *)
(* execution, and the first that fails alone decides the response: 200     *)
(* with the stored response on a cache hit, 400 validation_error, 409      *)
(* expired_or_missing_quote for a missing, expired or used quote, 400      *)
(* endpoint_mismatch; a request that passes them is handed to the verifier *)
(* and answered 402 payment_invalid when its claim is rejected, else 500   *)
(* job_execution_failed when its job fails, else 200.                      *)
(***************************************************************************)
Unusable(q) ==
    \/ q \notin IssuedQuotes
    \/ PastExpiry(q)
    \/ quotes[q].status # "active"

C20_FirstFailingCheckDecides ==
    [][/\ \A key \in Keys, body \in Bodies :
             Paycall(key, body)
             => IF Cached(key)
                THEN Answer(key, body, 200, idem[key].response_json)
                ELSE IF ~PayCallBodySchema(body)
                THEN Answer(key, body, 400, Error("validation_error", << >>))
                ELSE IF Unusable(body.quote_id)
                THEN Answer(key, body, 409, Error("expired_or_missing_quote", << >>))
                ELSE IF Mismatch(body)
                THEN Answer(key, body, 400, Error("endpoint_mismatch", << >>))
                ELSE /\ sent' = sent
                     /\ \E r \in BagToSet(inflight') :
                           /\ r.pc = "awaitVerify"
                           /\ r.key = key
                           /\ r.body = body
                           /\ CopiesIn(r, inflight') = CopiesIn(r, inflight) + 1
       /\ \A r \in Handlers :
             VerifyResume(r)
             => IF ~(WellFormed(r.body.ark_payment.vtxo_spend)
                     /\ WellFormed(r.body.ark_payment.proof))
                THEN /\ last'.code = 402
                     /\ last'.payload.error = "payment_invalid"
                     /\ Len(sent') = Len(sent) + 1
                ELSE sent' = sent
       /\ \A r \in Handlers :
             ExecuteResume(r)
             => /\ Len(sent') = Len(sent) + 1
                /\ IF jobs[r.jobId].status = "failed"
                   THEN /\ last'.code = 500
                        /\ last'.payload.error = "job_execution_failed"
                   ELSE last'.code = 200]_vars

(* A request for a quote past its expiry with a body that fails the schema *)
(* was answered 400 validation_error, and a request with a valid body for  *)
(* the same quote 409.                                                     *)
C20_Witness ==
    \E i, j \in 1..Len(sent) :
        /\ sent[i].code = 400
        /\ sent[i].payload = Error("validation_error", << >>)
        /\ sent[i].quote_id \in IssuedQuotes
        /\ Expired(sent[i].quote_id)
        /\ sent[j].code = 409
        /\ sent[j].quote_id = sent[i].quote_id

(***************************************************************************)
(* C21: a quote whose status is used keeps that status in every later      *)
(* state: no paycall, validation-time expiry check or sweep changes it to  *)
(* expired or active.                                                      *)
(***************************************************************************)
C21_UsedStaysUsed ==
    [][\A q \in IssuedQuotes :
          quotes[q].status = "used" => quotes'[q].status = "used"]_vars

(***************************************************************************)
(* C22: a quote whose status is expired never becomes used or active       *)
(* afterwards, also when it was marked expired while a settlement of it    *)
(* was waiting on the verifier.                                            *)
(***************************************************************************)
C22_ExpiredStaysExpired ==
    [][\A q \in IssuedQuotes :
          quotes[q].status = "expired" => quotes'[q].status = "expired"]_vars

(***************************************************************************)
(* C23: recording the payment and marking the quote used behave as one     *)
(* unit, a crash or a storage failure between the two writes included: no  *)
(* verified payment exists for a quote that is still active, and no used   *)
(* quote lacks a payment.                                                  *)
(***************************************************************************)
C23_PaymentAndUsedTogether ==
    /\ \A p \in DOMAIN payments :
          payments[p].status = "verified"
              => quotes[payments[p].quote_id].status # "active"
    /\ \A q \in IssuedQuotes :
          quotes[q].status = "used" => PaymentsOf(q) # {}

(***************************************************************************)
(* C24: a run of the background sweep, wherever it falls between the steps *)
(* of in-flight requests, changes only active quotes, to expired, and      *)
(* deletes only idempotency entries: used and expired quotes, payments,    *)
(* jobs, the suspended handlers and the responses are left as they were.   *)
(***************************************************************************)
C24_SweepFrame ==
    [][cleanupExpired =>
          /\ DOMAIN quotes' = DOMAIN quotes
          /\ \A q \in IssuedQuotes :
                \/ quotes'[q] = quotes[q]
                \/ /\ quotes[q].status = "active"
                   /\ quotes'[q] = [quotes[q] EXCEPT !.status = "expired"]
          /\ DOMAIN idem' \subseteq DOMAIN idem
          /\ \A k \in DOMAIN idem' : idem'[k] = idem[k]
          /\ payments' = payments
          /\ jobs' = jobs
          /\ inflight' = inflight
          /\ sent' = sent]_vars

(* The sweep has expired a quote no paycall found expired and purged the   *)
(* entry of a settled request, next to a quote that stays used with its    *)
(* payment and job.                                                        *)
C24_Witness ==
    /\ \E q \in IssuedQuotes :
          /\ quotes[q].status = "expired"
          /\ \A i \in 1..Len(sent) : ~(sent[i].quote_id = q /\ sent[i].code = 409)
    /\ \E q \in IssuedQuotes :
          /\ quotes[q].status = "used"
          /\ PaymentsOf(q) # {}
    /\ \E i \in 1..Len(sent) :
          /\ sent[i].code = 200
          /\ sent[i].key # ""
          /\ sent[i].key \notin DOMAIN idem
    /\ \E j \in DOMAIN jobs : jobs[j].status = "completed"

(***************************************************************************)
(* C25: what a run of the sweep leaves, in whatever state it runs: no      *)
(* quote past its expiry is still active and no idempotency entry past its *)
(* expiry is still stored, and a quote or an entry not yet past its expiry *)
(* is left alone.                                                          *)
(***************************************************************************)
C25_SweepFindsAllExpired ==
    /\ \A q \in IssuedQuotes :
          IF Expired(q)
          THEN cleanupQuotes(quotes, now)[q].status # "active"
          ELSE cleanupQuotes(quotes, now)[q] = quotes[q]
    /\ \A k \in DOMAIN idem :
          IF Stale(k)
          THEN k \notin DOMAIN cleanupIdempotency(idem, now)
          ELSE k \in DOMAIN cleanupIdempotency(idem, now)

(***************************************************************************)
(* C26: within a paycall the job handler runs once per recorded payment:   *)
(* every payment has exactly one job, the one request that created the job *)
(* invokes its handler at most once, and a job that failed is never        *)
(* executed again: it stays as it failed.                                  *)
(***************************************************************************)
JobsOf(p) == {j \in DOMAIN jobs : jobs[j].payment_id = p}

C26_HandlerOncePerPayment ==
    /\ [](\A p \in DOMAIN payments : Cardinality(JobsOf(p)) = 1)
    /\ [](\A r \in Handlers :
             /\ r.invoked <= 1
             /\ r.jobId # << >> =>
                   /\ CopiesIn(r, inflight) = 1
                   /\ \A r2 \in Handlers \ {r} : r2.jobId # r.jobId
             /\ r.pc \in {"awaitVerify", "awaitCreateJob"} => r.invoked = 0)
    /\ [][\A j \in DOMAIN jobs :
             jobs[j].status = "failed" => jobs'[j] = jobs[j]]_vars

(* A handler was invoked once, threw, and its job is failed: the request   *)
(* is about to answer 500 without a second invocation.                     *)
C26_Witness ==
    \E r \in Handlers :
        /\ r.pc = "awaitExecute"
        /\ r.invoked = 1
        /\ r.outcome.status = "error"
        /\ jobs[r.jobId].status = "failed"
        /\ JobsOf(r.paymentId) = {r.jobId}

(***************************************************************************)
(* C27: a job starts queued and moves only along queued -> processing ->   *)
(* completed or queued -> processing -> failed; once completed or failed   *)
(* it is never changed; result_json is set only on a completed job and     *)
(* error_message only on a failed one.  With no worker registered          *)
(* executeJob goes through processing to failed without yielding.          *)
(***************************************************************************)
JobStep(j) ==
    \/ jobs'[j] = jobs[j]
    \/ /\ jobs[j].status = "queued"
       /\ jobs'[j] = Processing(jobs, j)[j]
    \/ /\ jobs[j].status = "processing"
       /\ jobs'[j].status = "completed"
       /\ jobs'[j].result_json # << >>
       /\ jobs'[j].completed_at # << >>
    \/ /\ jobs[j].status = "processing"
       /\ jobs'[j].status = "failed"
       /\ jobs'[j].error_message # << >>
       /\ jobs'[j].completed_at # << >>
    \/ /\ jobs[j].status = "queued"
       /\ ~HasWorker(jobs[j].endpoint)
       /\ Processing(jobs, j)[j].status = "processing"
       /\ jobs'[j] = executeJobSettle(Processing(jobs, j), j,
                                      executeJobCall(jobs, j, now), now)[j]
       /\ jobs'[j].status = "failed"

C27_JobLifecycle ==
    /\ [](\A j \in DOMAIN jobs :
             /\ jobs[j].status \in {"queued", "processing", "completed", "failed"}
             /\ jobs[j].result_json # << >> => jobs[j].status = "completed"
             /\ jobs[j].error_message # << >> => jobs[j].status = "failed"
             /\ jobs[j].completed_at # << >> <=> Terminal(jobs[j]))
    /\ [][/\ DOMAIN jobs \subseteq DOMAIN jobs'
          /\ \A j \in DOMAIN jobs' \ DOMAIN jobs :
                /\ jobs'[j].status = "queued"
                /\ jobs'[j].result_json = << >>
                /\ jobs'[j].error_message = << >>
          /\ \A j \in DOMAIN jobs :
                /\ JobStep(j)
                /\ Terminal(jobs[j]) => jobs'[j] = jobs[j]]_vars

(* A completed job stands next to a job that failed for want of a worker. *)
C27_Witness ==
    /\ \E j \in DOMAIN jobs :
          /\ jobs[j].status = "completed"
          /\ jobs[j].result_json # << >>
          /\ jobs[j].error_message = << >>
    /\ \E j \in DOMAIN jobs :
          /\ jobs[j].status = "failed"
          /\ ~HasWorker(jobs[j].endpoint)
          /\ jobs[j].error_message # << >>
          /\ jobs[j].result_json = << >>

(***************************************************************************)
(* C28: executeJob called for a job that is already completed or failed    *)
(* does not invoke the handler again and leaves the job's status, result   *)
(* and completion time as they were.                                       *)
(***************************************************************************)
C28_TerminalJobNotRerun ==
    \A c \in direct :
        (c.fn = "executeJob" /\ c.before # NULL /\ Terminal(c.before))
            => /\ ~c.invoked
               /\ c.after.status = c.before.status
               /\ c.after.result_json = c.before.result_json
               /\ c.after.completed_at = c.before.completed_at

(***************************************************************************)
(* C29: past payment verification the paycall ends in a well-formed        *)
(* response, whatever the handler does.  A request waiting for its job's   *)
(* result has a job; once executeJob has returned, the job is completed    *)
(* with the result stored, or failed with the error description stored,    *)
(* and failed it is when no worker is registered or the worker threw; the  *)
(* response then sent is 200 with that result, or 500 job_execution_failed *)
(* with that description.                                                  *)
(***************************************************************************)
NoWorkerMessage(endpoint) == <<"no worker for endpoint: ", endpoint>>

C29_JobErrorsCaptured ==
    /\ [](\A r \in Handlers :
             /\ r.pc \in {"awaitVerify", "awaitCreateJob", "awaitWorker", "awaitExecute"}
             /\ r.pc # "awaitVerify" => r.jobId \in DOMAIN jobs
             /\ r.pc = "awaitWorker" => HasWorker(jobs[r.jobId].endpoint)
             /\ r.pc = "awaitExecute" =>
                   LET job == jobs[r.jobId] IN
                   /\ Terminal(job)
                   /\ job.status = "failed" <=> r.outcome.status = "error"
                   /\ job.status = "failed" => job.error_message = <<r.outcome.error>>
                   /\ job.status = "completed" => job.result_json = <<r.outcome.result>>
                   /\ ~HasWorker(job.endpoint) =>
                         /\ job.status = "failed"
                         /\ job.error_message = <<NoWorkerMessage(job.endpoint)>>)
    /\ [][\A r \in Handlers :
             ExecuteResume(r) =>
                LET job == jobs[r.jobId] IN
                IF job.status = "failed"
                THEN Answer(r.key, r.body, 500,
                            Error("job_execution_failed", job.error_message[1]))
                ELSE /\ job.status = "completed"
                     /\ Answer(r.key, r.body, 200,
                               JSONstringify([status |-> "ok",
                                              result |-> job.result_json[1],
                                              receipt |-> BuildResponse(r).receipt]))]_vars

(* Both failures have been answered: a job of an endpoint without a worker *)
(* and a job whose worker threw, each failed with the description that     *)
(* went out in the 500.                                                    *)
C29_Witness ==
    /\ \E i \in 1..Len(sent), j \in DOMAIN jobs :
          /\ ~HasWorker(jobs[j].endpoint)
          /\ jobs[j].status = "failed"
          /\ sent[i].code = 500
          /\ sent[i].payload = Error("job_execution_failed", NoWorkerMessage(jobs[j].endpoint))
    /\ \E i \in 1..Len(sent), j \in DOMAIN jobs :
          /\ HasWorker(jobs[j].endpoint)
          /\ jobs[j].status = "failed"
          /\ sent[i].code = 500
          /\ sent[i].payload = Error("job_execution_failed", jobs[j].error_message[1])

(***************************************************************************)
(* C30: quote issuance does not depend on the settlement-round hint: a     *)
(* GET /v1/quote whose round query failed is still answered 200 with a     *)
(* quote that is stored, and the store has one quote per such request.     *)
(***************************************************************************)
C30_RoundFailureStillIssues ==
    \A c \in direct :
        (c.fn = "GET /v1/quote" /\ c.round = RoundFailure)
            => /\ c.code = 200
               /\ c.result.quote_id \in IssuedQuotes
               /\ c.result.price_sats = quotes[c.result.quote_id].price_sats

(***************************************************************************)
(* C31: every paycall request is answered, once: the number of responses   *)
(* catches up with the number of requests received, a response is sent     *)
(* exactly when a request ends (or is answered on arrival), one at a time, *)
(* and a job that is still queued or processing belongs to a request that  *)
(* has not been answered yet, so at the response the request's job is      *)
(* completed or failed.                                                    *)
(***************************************************************************)
Waiting == BagCardinality(inflight)

C31_EveryRequestAnsweredOnce ==
    /\ \A n \in 1..MaxCalls : (calls >= n) ~> (Len(sent) >= n)
    /\ [][/\ calls' >= calls
          /\ Len(sent') \in {Len(sent), Len(sent) + 1}
          /\ Waiting' < Waiting => (Waiting' = Waiting - 1 /\ Len(sent') = Len(sent) + 1)
          /\ Len(sent') = Len(sent) + 1 => Waiting' <= Waiting
          /\ \A r \in Handlers :
                (~BagIn(r, inflight') /\ Waiting' < Waiting /\ r.jobId # << >>)
                    => Terminal(jobs'[r.jobId])]_vars
    /\ [](\A j \in DOMAIN jobs :
             ~Terminal(jobs[j]) => \E r \in Handlers : r.jobId = j)

(* Two requests were received and both are answered, one of them with its  *)
(* job failed, the other with its job completed; none is waiting.          *)
C31_Witness ==
    /\ Len(sent) = MaxCalls
    /\ inflight = EmptyBag
    /\ \E j \in DOMAIN jobs : jobs[j].status = "failed"
    /\ \E j \in DOMAIN jobs : jobs[j].status = "completed"
    /\ \E i \in 1..Len(sent) : sent[i].code = 500
    /\ \E i \in 1..Len(sent) : sent[i].code = 200

(***************************************************************************)
(* C32: no step removes a quote, a payment or a job; every payment names a *)
(* stored quote and has status verified, and every job names a stored      *)
(* payment.                                                                *)
(***************************************************************************)
C32_NothingDeleted ==
    /\ [](\A p \in DOMAIN payments :
             /\ payments[p].quote_id \in DOMAIN quotes
             /\ payments[p].status = "verified")
    /\ [](\A j \in DOMAIN jobs : jobs[j].payment_id \in DOMAIN payments)
    /\ [][/\ DOMAIN quotes \subseteq DOMAIN quotes'
          /\ DOMAIN payments \subseteq DOMAIN payments'
          /\ DOMAIN jobs \subseteq DOMAIN jobs']_vars

(* A day after a settlement, with the sweep having purged the settlement's *)
(* idempotency entry, the quote, its payment and its job are still stored. *)
C32_Witness ==
    /\ now >= MS_PER_DAY
    /\ \E i \in 1..Len(sent) :
          /\ sent[i].code = 200
          /\ sent[i].key # ""
          /\ sent[i].key \notin DOMAIN idem
    /\ \E j \in DOMAIN jobs :
          /\ Terminal(jobs[j])
          /\ payments[jobs[j].payment_id].status = "verified"
          /\ DateParse(quotes[payments[jobs[j].payment_id].quote_id].expires_at) < now

(***************************************************************************)
(* C33: only successful settlements are cached: every stored idempotency   *)
(* entry holds a status-ok response whose receipt names a completed job    *)
(* and the verified payment of that job; no error response is stored.      *)
(***************************************************************************)
StoredResponse(key) == JSONparse(idem[key].response_json)

C33_OnlySuccessCached ==
    \A key \in DOMAIN idem :
        LET response == StoredResponse(key) IN
        /\ DOMAIN response = {"status", "result", "receipt"}
        /\ response.status = "ok"
        /\ response.receipt.job_id \in DOMAIN jobs
        /\ jobs[response.receipt.job_id].status = "completed"
        /\ jobs[response.receipt.job_id].payment_id = response.receipt.payment_id
        /\ response.receipt.payment_id \in DOMAIN payments
        /\ payments[response.receipt.payment_id].status = "verified"

(* A key under which an error was answered holds the response of a later   *)
(* successful settlement, and nothing of the error.                        *)
C33_Witness ==
    \E i \in 1..Len(sent) :
        /\ sent[i].code \in {400, 402, 409, 500}
        /\ sent[i].key \in DOMAIN idem
        /\ StoredResponse(sent[i].key).status = "ok"
        /\ \E j \in 1..Len(sent) :
              /\ sent[j].code = 200
              /\ sent[j].key = sent[i].key

(***************************************************************************)
(* C34: no step records a payment for, or marks used, a quote whose expiry *)
(* has passed at the time of the write, also when the expiry fell while    *)
(* the request was waiting on the verifier.                                *)
(***************************************************************************)
C34_NoSettlementPastExpiry ==
    [][\A q \in IssuedQuotes :
          (\/ \E p \in DOMAIN payments' \ DOMAIN payments : payments'[p].quote_id = q
           \/ quotes[q].status # "used" /\ quotes'[q].status = "used")
              => ~Expired(q)]_vars

(***************************************************************************)
(* C35: a quote is issued only for an endpoint with a registered worker,   *)
(* so no payment is recorded and no quote is used for an endpoint nothing  *)
(* can run.                                                                *)
(***************************************************************************)
C35_QuotesOnlyForWorkers ==
    /\ \A q \in IssuedQuotes : HasWorker(quotes[q].endpoint)
    /\ \A p \in DOMAIN payments : HasWorker(quotes[payments[p].quote_id].endpoint)

(***************************************************************************)
(* C36: every quote issued through GET /v1/quote, whatever unit numbers    *)
(* the query carries, zero and negative ones included, has a price of at   *)
(* least 1 sat, in the response and in the store.                          *)
(***************************************************************************)
C36_PriceAtLeastOne ==
    /\ \A c \in QuoteCalls : c.result.price_sats >= 1
    /\ \A q \in IssuedQuotes : quotes[q].price_sats >= 1

(***************************************************************************)
(* C37, as claimed: no paycall response carries the reason                 *)
(* missing_payment_data, and a paycall whose vtxo_spend or proof is empty  *)
(* is always answered 400 validation_error, with no quote looked up, no    *)
(* call of the verifier and the store unchanged.                           *)
(***************************************************************************)
EmptyBlob(body) ==
    Len(body.ark_payment.vtxo_spend) = 0 \/ Len(body.ark_payment.proof) = 0

NoMissingPaymentData ==
    \A i \in 1..Len(sent) :
        sent[i].code = 402 => sent[i].payload.detail # "missing_payment_data"

C37_EmptyBlobAlways400 ==
    /\ []NoMissingPaymentData
    /\ [][\A key \in Keys, body \in Bodies :
             (Paycall(key, body) /\ EmptyBlob(body))
             => /\ Answer(key, body, 400, Error("validation_error", << >>))
                /\ inflight' = inflight
                /\ UNCHANGED store]_vars

(***************************************************************************)
(* C37, amended: no paycall response carries the reason                    *)
(* missing_payment_data; a paycall whose vtxo_spend or proof is empty      *)
(* never reaches the quote lookup or the verifier and leaves the store     *)
(* unchanged; it is answered 400 validation_error unless its key has a     *)
(* live cache entry, whose response it is answered with (200), the cache   *)
(* being looked up before the body is validated.                           *)
(***************************************************************************)
C37_EmptyBlobNeverVerified ==
    /\ []NoMissingPaymentData
    /\ [][\A key \in Keys, body \in Bodies :
             (Paycall(key, body) /\ EmptyBlob(body))
             => /\ inflight' = inflight
                /\ UNCHANGED store
                /\ IF Cached(key)
                   THEN Answer(key, body, 200,
                               JSONstringify(JSONparse(
                                   getIdempotencyKey(idem, key, now).response_json)))
                   ELSE Answer(key, body, 400, Error("validation_error", << >>))]_vars

(* A request with an empty proof, naming a quote that is active and not    *)
(* past its expiry, was answered 400 validation_error; the quote is still  *)
(* active and nothing was paid.                                            *)
C37_Witness ==
    \E i \in 1..Len(sent) :
        /\ sent[i].code = 400
        /\ sent[i].payload = Error("validation_error", << >>)
        /\ sent[i].quote_id \in IssuedQuotes
        /\ quotes[sent[i].quote_id].status = "active"
        /\ ~Expired(sent[i].quote_id)
        /\ payments = EmptyFn
        /\ inflight = EmptyBag

====
